---- MODULE Spec2Model ----
(***************************************************************************)
(* A model of src/encoding.py (class Encoding) and of the way its caller   *)
(* (src/main.py) drives it.                                                *)
(*                                                                         *)
(* A float32 value is modelled by its bit pattern, read the way the code   *)
(* reads it: tensor.view(torch.int32), a signed 32-bit integer in          *)
(* -2^31 .. 2^31-1.  Tensors are finite sequences of such integers.  The   *)
(* torch int32 operators >>, <<, & and | are modelled bit by bit, with the *)
(* wrap-around of the 32-bit width.                                        *)
(*                                                                         *)
(* The aggression is the Python float num / den of two integers with       *)
(* 0 < den < 2^30.  The float arithmetic of __init__ (the division, the    *)
(* subtraction from 1, the product with 23, each rounded to 53 significant *)
(* bits, ties to even) is modelled on fixed-point bit vectors.             *)
(***************************************************************************)
EXTENDS Integers, Sequences, FiniteSets, TLC

VARIABLES
    enc,        \* the codec object bound by the caller (main.py:7), or NoCodec
    tensor,     \* the float32 tensor last passed to encode (main.py:5)
    primary,    \* the primary stream held by the caller (main.py:8)
    residual,   \* the residual stream held by the caller (main.py:8)
    full,       \* result of decode on the held streams (main.py:10)
    low,        \* result of decode_low on the held primary stream (main.py:11)
    raised,     \* the exception raised by the last call, "none" if it returned
    op          \* the last call made

vars == <<enc, tensor, primary, residual, full, low, raised, op>>

-----------------------------------------------------------------------------
(* Bounds of the model *)

\* aggression values are the grid num / (2 * AggSteps)
AggSteps == 10
\* how far outside [0, 1] the grid of aggressions reaches, in grid steps
AggOver == 2
\* longest multi-element tensor / stream
MaxLen == 3

-----------------------------------------------------------------------------
(* 32-bit integer arithmetic of torch.int32 tensors *)

Int32Min == (-2147483647) - 1
Int32Max == 2147483647

\* Python's 1 << n on unbounded ints, for 0 <= n <= 30
Pow2(n) == 2 ^ n

\* bit i (0..31) of the two's complement form of the int32 a
Bit(a, i) == IF i = 31 THEN (IF a < 0 THEN 1 ELSE 0) ELSE (a \div Pow2(i)) % 2

\* a >> n on int32, 0 <= n <= 31 : arithmetic (sign-filling) shift
Shr(a, n) == IF n = 31 THEN (IF a < 0 THEN -1 ELSE 0) ELSE a \div Pow2(n)

\* a << n on int32 : bits 0..31-n move up by n, the bits above them are lost, and
\* bit 31 of the result is its sign; torch yields 0 for a count outside 0..31
Shl(a, n) ==
    IF n < 0 \/ n >= 32 THEN 0
    ELSE IF n = 0 THEN a
    ELSE (IF n = 31 THEN 0 ELSE (a % Pow2(31 - n)) * Pow2(n))
         + (IF Bit(a, 31 - n) = 1 THEN Int32Min ELSE 0)

\* a & b on int32, lowest bit first; the remaining bits of an int32 are all
\* zero when it is 0 and all one when it is -1
AndBits[a \in Int, b \in Int] ==
    IF a = 0 \/ b = 0 THEN 0
    ELSE IF a = -1 THEN b
    ELSE IF b = -1 THEN a
    ELSE (IF a % 2 = 1 /\ b % 2 = 1 THEN 1 ELSE 0) + 2 * AndBits[a \div 2, b \div 2]

BitAnd(a, b) == AndBits[a, b]

\* a | b on int32, lowest bit first
OrBits[a \in Int, b \in Int] ==
    IF a = -1 \/ b = -1 THEN -1
    ELSE IF a = 0 THEN b
    ELSE IF b = 0 THEN a
    ELSE (IF a % 2 = 1 \/ b % 2 = 1 THEN 1 ELSE 0) + 2 * OrBits[a \div 2, b \div 2]

BitOr(a, b) == OrBits[a, b]

-----------------------------------------------------------------------------
(* Python names of the caller: bound to a value, or not bound at all *)

Unbound == [bound |-> FALSE, raw |-> <<>>]
Bound(v) == [bound |-> TRUE, raw |-> v]

-----------------------------------------------------------------------------
(* Encoding.__init__ *)

\* self.m_bits
m_bits == 23

\* significant bits of a Python float (IEEE-754 binary64)
MantBits == 53

\* A float in [0, 32) that is a multiple of 2^-FracBits is held as the vector of
\* its bits, lowest first: v[i] is the bit of weight 2^(i - 1 - FracBits)
FracBits == MantBits + 31
Width == FracBits + 6
BitVectors == [1..Width -> {0, 1}]
FloatZero == [i \in 1..Width |-> 0]
FloatOne == [i \in 1..Width |-> IF i = FracBits + 1 THEN 1 ELSE 0]

\* index of the highest / lowest set bit, 0 for the zero vector
TopBit(v) ==
    LET s == {i \in 1..Width : v[i] = 1}
    IN  IF s = {} THEN 0 ELSE CHOOSE i \in s : \A j \in s : j <= i
LowBit(v) ==
    LET s == {i \in 1..Width : v[i] = 1}
    IN  IF s = {} THEN 0 ELSE CHOOSE i \in s : \A j \in s : i <= j

\* the float nearest to the number v + (a positive amount below its lowest bit, if
\* sticky): the MantBits bits from the highest set one are kept, the rest round
\* to nearest, a tie to the even neighbour
RoundToFloat(v, sticky) ==
    LET top   == TopBit(v)
        guard == top - MantBits
        lsb   == guard + 1
        below == sticky \/ \E i \in 1..(guard - 1) : v[i] = 1
        up    == v[guard] = 1 /\ (below \/ v[lsb] = 1)
        z     == CHOOSE i \in lsb..Width : v[i] = 0 /\ \A j \in lsb..(i - 1) : v[j] = 1
    IN  IF top <= MantBits THEN v
        ELSE IF ~up THEN [i \in 1..Width |-> IF i < lsb THEN 0 ELSE v[i]]
        ELSE [i \in 1..Width |-> IF i < z THEN 0 ELSE IF i = z THEN 1 ELSE v[i]]

\* the first k bits after the binary point of rem / d (rem < d), highest first
QuotBits[k \in Nat, rem \in Nat, d \in Nat] ==
    IF k = 0 THEN <<>>
    ELSE <<(2 * rem) \div d>> \o QuotBits[k - 1, (2 * rem) % d, d]

\* what is left of rem / d below those k bits, times d * 2^k
QuotRem[k \in Nat, rem \in Nat, d \in Nat] ==
    IF k = 0 THEN rem ELSE QuotRem[k - 1, (2 * rem) % d, d]

\* the float n / d, for 0 <= n <= d
FloatDiv(n, d) ==
    IF n = d THEN FloatOne
    ELSE LET q == QuotBits[FracBits, n, d]
         IN  RoundToFloat([i \in 1..Width |-> IF i <= FracBits THEN q[FracBits + 1 - i] ELSE 0],
                          QuotRem[FracBits, n, d] # 0)

\* the float 1 - a, for a float 0 <= a <= 1
FloatOneMinus(a) ==
    LET lowest == LowBit(a)
    IN  IF lowest = 0 THEN FloatOne
        ELSE IF lowest = FracBits + 1 THEN FloatZero
        ELSE RoundToFloat([i \in 1..Width |->
                             IF i < lowest THEN 0
                             ELSE IF i = lowest THEN 1
                             ELSE IF i <= FracBits THEN 1 - a[i]
                             ELSE 0], FALSE)

\* the bits of v * m from index i on, with the carry c into index i
MulBits[i \in Nat, c \in Nat, m \in Nat, v \in BitVectors] ==
    IF i > Width THEN <<>>
    ELSE <<(m * v[i] + c) % 2>> \o MulBits[i + 1, (m * v[i] + c) \div 2, m, v]

\* the float b * m, for a float 0 <= b <= 1 and an int 0 <= m < 32
FloatTimes(b, m) == RoundToFloat(MulBits[1, 0, m, b], FALSE)

\* the integer part of the float v
IntPart(v) ==
    v[FracBits + 1] + 2 * v[FracBits + 2] + 4 * v[FracBits + 3]
    + 8 * v[FracBits + 4] + 16 * v[FracBits + 5] + 32 * v[FracBits + 6]

\* int() in place of round(): the fraction is dropped
PyTrunc(v) == IntPart(v)

\* Python 3 round() of the float v : nearest integer, a tie goes to the even
\* neighbour
PyRound(v) ==
    LET q    == IntPart(v)
        half == v[FracBits] = 1
        rest == \E i \in 1..(FracBits - 1) : v[i] = 1
    IN  IF half /\ (rest \/ q % 2 = 1) THEN q + 1 ELSE q

\* an assert that rejects the end points: 0.0 < aggression < 1.0
InRange_exclusive(aggression) ==
    0 < aggression.num /\ aggression.num < aggression.den

\* the condition of the assert: 0.0 <= aggression <= 1.0, for the float
\* aggression = num / den (den < 2^30, so the float is 0 or 1 only when the
\* quotient is)
InRange(aggression) ==
    0 <= aggression.num /\ aggression.num <= aggression.den

\* both widths rounded on their own: residual_m_bits = round(aggression * m_bits)
Encoding_round_both(aggression) ==
    LET a == FloatDiv(aggression.num, aggression.den)
    IN  [aggression      |-> aggression,
         m_bits          |-> m_bits,
         primary_m_bits  |-> PyRound(FloatTimes(FloatOneMinus(a), m_bits)),
         residual_m_bits |-> PyRound(FloatTimes(a, m_bits))]

\* the attributes __init__ sets on self, for an aggression that passes the assert
Encoding(aggression) ==
    LET a == FloatDiv(aggression.num, aggression.den)
        p == PyRound(FloatTimes(FloatOneMinus(a), m_bits))
    IN  [aggression      |-> aggression,
         m_bits          |-> m_bits,
         primary_m_bits  |-> p,
         residual_m_bits |-> m_bits - p]

-----------------------------------------------------------------------------
(* Encoding.encode, per element *)

sign_of(raw) == BitAnd(Shr(raw, 31), 1)
exponent_of(raw) == BitAnd(Shr(raw, 23), 255)
mantissa_of(raw) == BitAnd(raw, 8388607)

encode_residual(self, raw) ==
    BitAnd(mantissa_of(raw), Pow2(self.residual_m_bits) - 1)

\* the sign placed one bit too high: sign << (9 + primary_m_bits)
encode_primary_sign9(self, raw) ==
    LET mantissa_primary == Shr(mantissa_of(raw), self.residual_m_bits)
    IN  BitOr(BitOr(Shl(sign_of(raw), 9 + self.primary_m_bits),
                    Shl(exponent_of(raw), self.primary_m_bits)),
              mantissa_primary)

encode_primary(self, raw) ==
    LET mantissa_primary == Shr(mantissa_of(raw), self.residual_m_bits)
    IN  BitOr(BitOr(Shl(sign_of(raw), 8 + self.primary_m_bits),
                    Shl(exponent_of(raw), self.primary_m_bits)),
              mantissa_primary)

\* encode on a flat tensor: the pair (primary, mantissa_residual)
encode(self, tensor_fp32) ==
    [primary  |-> [i \in 1..Len(tensor_fp32) |-> encode_primary(self, tensor_fp32[i])],
     residual |-> [i \in 1..Len(tensor_fp32) |-> encode_residual(self, tensor_fp32[i])]]

-----------------------------------------------------------------------------
(* Encoding.decode and Encoding.decode_low, per element *)

\* the primary mantissa bits not moved back up: mantissa_primary | residual
decode_raw_unshifted(self, p, r) ==
    LET mantissa_primary == BitAnd(p, Pow2(self.primary_m_bits) - 1)
        exponent == BitAnd(Shr(p, self.primary_m_bits), 255)
        sign     == BitAnd(Shr(p, 8 + self.primary_m_bits), 1)
        mantissa == BitOr(mantissa_primary, r)
    IN  BitOr(BitOr(Shl(sign, 31), Shl(exponent, 23)), mantissa)

\* the residual left out: mantissa = mantissa_primary << residual_m_bits
decode_raw_no_residual(self, p, r) ==
    LET mantissa_primary == BitAnd(p, Pow2(self.primary_m_bits) - 1)
        exponent == BitAnd(Shr(p, self.primary_m_bits), 255)
        sign     == BitAnd(Shr(p, 8 + self.primary_m_bits), 1)
        mantissa == Shl(mantissa_primary, self.residual_m_bits)
    IN  BitOr(BitOr(Shl(sign, 31), Shl(exponent, 23)), mantissa)

decode_raw(self, p, r) ==
    LET mantissa_primary == BitAnd(p, Pow2(self.primary_m_bits) - 1)
        exponent == BitAnd(Shr(p, self.primary_m_bits), 255)
        sign     == BitAnd(Shr(p, 8 + self.primary_m_bits), 1)
        mantissa == BitOr(Shl(mantissa_primary, self.residual_m_bits), r)
    IN  BitOr(BitOr(Shl(sign, 31), Shl(exponent, 23)), mantissa)

\* the primary mantissa bits left at the bottom of the mantissa
decode_low_raw_unshifted(self, p) ==
    LET mantissa_primary == BitAnd(p, Pow2(self.primary_m_bits) - 1)
        exponent == BitAnd(Shr(p, self.primary_m_bits), 255)
        sign     == BitAnd(Shr(p, 8 + self.primary_m_bits), 1)
    IN  BitOr(BitOr(Shl(sign, 31), Shl(exponent, 23)), mantissa_primary)

decode_low_raw(self, p) ==
    LET mantissa_primary == BitAnd(p, Pow2(self.primary_m_bits) - 1)
        exponent == BitAnd(Shr(p, self.primary_m_bits), 255)
        sign     == BitAnd(Shr(p, 8 + self.primary_m_bits), 1)
        mantissa == Shl(mantissa_primary, self.residual_m_bits)
    IN  BitOr(BitOr(Shl(sign, 31), Shl(exponent, 23)), mantissa)

\* torch broadcasting of two 1-D tensors in an elementwise operator: equal
\* lengths combine index by index, a tensor of length 1 is repeated along the
\* other one, anything else raises RuntimeError
Broadcastable(n, m) == n = m \/ n = 1 \/ m = 1
BroadcastLen(n, m) == IF n = 1 THEN m ELSE n
At(s, i) == IF Len(s) = 1 THEN s[1] ELSE s[i]

\* decode: the exception raised ("none" when it returns) and the tensor returned
decode(self, primary_stream, residual_stream) ==
    IF Broadcastable(Len(primary_stream), Len(residual_stream))
    THEN [raised |-> "none",
          raw |-> [i \in 1..BroadcastLen(Len(primary_stream), Len(residual_stream)) |->
                     decode_raw(self, At(primary_stream, i), At(residual_stream, i))]]
    ELSE [raised |-> "RuntimeError", raw |-> <<>>]

decode_low(self, primary_stream) ==
    [i \in 1..Len(primary_stream) |-> decode_low_raw(self, primary_stream[i])]

-----------------------------------------------------------------------------
(* The inputs the calls are tried on *)

\* aggressions n / (2 * m_bits), n odd: in exact arithmetic (1 - aggression) * 23
\* is half-way between two integers, in floats it may fall to either side
TieAggressions ==
    {[num |-> 2 * k - 1, den |-> 2 * m_bits] : k \in 1..m_bits}

\* aggression = num / den on a grid that reaches a little outside [0, 1], and
\* the aggressions at the rounding ties
Aggressions ==
    {[num |-> n, den |-> 2 * AggSteps] : n \in (0 - AggOver) .. (2 * AggSteps + AggOver)}
    \cup TieAggressions

\* the int32 view of the float32 with the given sign, exponent and mantissa fields
Float32(s, e, m) ==
    IF s = 0 THEN e * 8388608 + m
    ELSE ((e * 8388608 + m) - Int32Max) - 1

\* exponent fields: zero/subnormal, normal (127, 128, 133 as in main.py), inf/NaN
Exponents == {0, 1, 127, 128, 133, 254, 255}
\* mantissa fields: zero, lowest bit, the literals of main.py (1.5, -2.75, 100.125),
\* alternating bit patterns, all ones
Mantissas == {0, 1, 3145728, 4194304, 4734976, 2796202, 5592405, 8388607}

Words == {Float32(s, e, m) : s \in 0..1, e \in Exponents, m \in Mantissas}

\* torch.tensor([1.5, -2.75, 0.0, 100.125], dtype=torch.float32)
DemoTensor ==
    <<Float32(0, 127, 4194304), Float32(1, 128, 3145728),
      Float32(0, 0, 0), Float32(0, 133, 4734976)>>

\* elements of the multi-element tensors: 1.5 and the all-ones NaN
SeqWords == {Float32(0, 127, 4194304), Float32(1, 255, 8388607)}

Tensors ==
    {<<w>> : w \in Words}
    \cup {DemoTensor}
    \cup UNION {[1..n -> SeqWords] : n \in 0..MaxLen}

\* streams a caller may hold that no encode call of its codec returned
PrimaryVals == {0, -1, Int32Min, Int32Max, 715827882}
ResidualVals == {Pow2(k) - 1 : k \in 0..m_bits} \cup {2796202, -1}
Rep(n, v) == [i \in 1..n |-> v]
ForeignStreams ==
    {<< <<p>>, <<r>> >> : p \in PrimaryVals, r \in ResidualVals}
    \cup {<<Rep(n, 715827882), Rep(m, 1)>> : n \in 0..MaxLen, m \in 0..MaxLen}

-----------------------------------------------------------------------------
(* The state machine *)

\* Encoding on the aggressions that pass the assert, computed once
EncodingOf == [a \in {x \in Aggressions : InRange(x)} |-> Encoding(a)]

\* the data the caller starts from: a float32 tensor to encode (main.py:5), or
\* a pair of streams it got from elsewhere
Init ==
    /\ enc = Unbound
    /\ \/ /\ \E t \in Tensors : tensor = Bound(t)
          /\ primary = Unbound
          /\ residual = Unbound
       \/ /\ tensor = Unbound
          /\ \E s \in ForeignStreams : primary = Bound(s[1]) /\ residual = Bound(s[2])
    /\ full = Unbound
    /\ low = Unbound
    /\ raised = "none"
    /\ op = "start"

\* enc = Encoding(aggression): the assert either raises AssertionError, and no
\* object comes into being, or the attributes are set
Construct(aggression) ==
    /\ op = "start"
    /\ IF InRange(aggression)
       THEN /\ enc' = Bound(EncodingOf[aggression])
            /\ raised' = "none"
       ELSE /\ enc' = Unbound
            /\ raised' = "AssertionError"
    /\ op' = "__init__"
    /\ UNCHANGED <<tensor, primary, residual, full, low>>

\* primary, residual = enc.encode(tensor)
Encode ==
    /\ enc.bound /\ tensor.bound
    /\ LET res == encode(enc.raw, tensor.raw)
       IN  /\ primary' = Bound(res.primary)
           /\ residual' = Bound(res.residual)
    /\ raised' = "none"
    /\ op' = "encode"
    /\ UNCHANGED <<enc, tensor, full, low>>

\* full = enc.decode(primary, residual)
Decode ==
    /\ enc.bound /\ primary.bound /\ residual.bound
    /\ LET res == decode(enc.raw, primary.raw, residual.raw)
       IN  /\ raised' = res.raised
           /\ full' = IF res.raised = "none" THEN Bound(res.raw) ELSE full
    /\ op' = "decode"
    /\ UNCHANGED <<enc, tensor, primary, residual, low>>

\* low = enc.decode_low(primary)
DecodeLow ==
    /\ enc.bound /\ primary.bound
    /\ low' = Bound(decode_low(enc.raw, primary.raw))
    /\ raised' = "none"
    /\ op' = "decode_low"
    /\ UNCHANGED <<enc, tensor, primary, residual, full>>

Next ==
    \/ \E a \in Aggressions : Construct(a)
    \/ Encode
    \/ Decode
    \/ DecodeLow

Spec == Init /\ [][Next]_vars

-----------------------------------------------------------------------------
(* Properties *)

\* The IEEE-754 binary32 fields of a bit pattern held as an int32, by arithmetic
FieldSign(x) == IF x < 0 THEN 1 ELSE 0
Low31(x) == IF x < 0 THEN (x + Int32Max) + 1 ELSE x
FieldExp(x) == Low31(x) \div 8388608
FieldMant(x) == Low31(x) % 8388608

\* the aggression of the codec is exactly the number n / d
AggressionIs(n, d) ==
    enc.bound /\ enc.raw.aggression.num * d = n * enc.raw.aggression.den

\* C1: round trip. Whenever decode has run on the streams encode returned for
\* the tensor, on the same codec, its result is the tensor, bit for bit.
RoundTrip ==
    (tensor.bound /\ primary.bound /\ residual.bound /\ full.bound)
        => full.raw = tensor.raw

\* a negative NaN with a payload went through encode and decode at a middle split
RoundTripWitness ==
    /\ tensor.bound /\ full.bound
    /\ tensor.raw = <<Float32(1, 255, 5592405)>>
    /\ enc.raw.primary_m_bits = 12
    /\ residual.raw # <<0>>
    /\ full.raw = tensor.raw

\* C2: split invariant. Every constructed codec has primary_m_bits +
\* residual_m_bits = 23 with both in 0..23, after construction and after any
\* calls of encode, decode and decode_low.
SplitInvariant ==
    enc.bound =>
        /\ enc.raw.primary_m_bits + enc.raw.residual_m_bits = 23
        /\ enc.raw.primary_m_bits \in 0..23
        /\ enc.raw.residual_m_bits \in 0..23

\* a codec with an uneven split after encode, decode and decode_low have run
SplitWitness ==
    /\ enc.bound /\ tensor.bound /\ full.bound /\ low.bound
    /\ enc.raw.primary_m_bits = 7
    /\ enc.raw.residual_m_bits = 16
    /\ op = "decode_low"

\* C3: midpoint rounding. aggression = 0.5 gives primary_m_bits = 12 and
\* residual_m_bits = 11.
MidpointRounding ==
    AggressionIs(1, 2) =>
        enc.raw.primary_m_bits = 12 /\ enc.raw.residual_m_bits = 11

\* a codec constructed with aggression = 0.5
MidpointWitness ==
    /\ AggressionIs(1, 2)
    /\ op = "__init__"
    /\ raised = "none"

\* C4: the class docstring. aggression = 0.5 gives 11 bits in the primary
\* stream and 12 bits in the residual stream.
DocstringMidpoint ==
    AggressionIs(1, 2) =>
        enc.raw.primary_m_bits = 11 /\ enc.raw.residual_m_bits = 12

\* C5: boundary aggressions. With aggression = 0.0 the split is 23/0, every
\* residual encode returns is 0 and decode_low of the primary stream alone is
\* the input; with aggression = 1.0 the split is 0/23, every primary is
\* (sign << 8) | exponent and every residual is the whole mantissa.
BoundaryAggression ==
    /\ AggressionIs(0, 1) =>
        /\ enc.raw.primary_m_bits = 23 /\ enc.raw.residual_m_bits = 0
        /\ (tensor.bound /\ residual.bound) =>
              \A i \in 1..Len(tensor.raw) : residual.raw[i] = 0
        /\ (tensor.bound /\ low.bound) => low.raw = tensor.raw
    /\ AggressionIs(1, 1) =>
        /\ enc.raw.primary_m_bits = 0 /\ enc.raw.residual_m_bits = 23
        /\ (tensor.bound /\ primary.bound /\ residual.bound) =>
              /\ Len(primary.raw) = Len(tensor.raw)
              /\ Len(residual.raw) = Len(tensor.raw)
              /\ \A i \in 1..Len(tensor.raw) :
                    /\ primary.raw[i] = FieldSign(tensor.raw[i]) * 256 + FieldExp(tensor.raw[i])
                    /\ residual.raw[i] = FieldMant(tensor.raw[i])

\* aggression = 0.0, a negative input with a full mantissa, decode_low has run
BoundaryWitness ==
    /\ AggressionIs(0, 1)
    /\ tensor.bound /\ residual.bound /\ low.bound
    /\ tensor.raw = <<Float32(1, 128, 8388607)>>
    /\ low.raw = tensor.raw

\* C6: invalid construction. A constructor call with an aggression outside
\* [0, 1] raises and leaves no codec; one with an aggression inside [0, 1],
\* the end points included, returns a codec holding that aggression.
InvalidConstruction ==
    [][\A a \in Aggressions :
          Construct(a) =>
             IF 0 <= a.num /\ a.num <= a.den
             THEN enc'.bound /\ raised' = "none" /\ enc'.raw.aggression = a
             ELSE ~enc'.bound /\ raised' = "AssertionError"]_vars

\* a constructor call has failed: no codec, an AssertionError
InvalidConstructionWitness ==
    /\ op = "__init__"
    /\ raised = "AssertionError"
    /\ ~enc.bound

\* C7: length mismatch. decode on streams of differing lengths raises and
\* returns nothing.
LengthMismatchRaises ==
    (op = "decode" /\ Len(primary.raw) # Len(residual.raw))
        => (raised # "none" /\ ~full.bound)

\* C8: decode_low against decode. For streams of equal length whose residuals
\* are within 0 .. 2^residual_m_bits - 1, decode_low(primary) equals
\* decode(primary, residual) at an index exactly when the residual there is 0.
InResidualRange(r) == 0 <= r /\ r <= Pow2(enc.raw.residual_m_bits) - 1
DecodeLowVersusDecode ==
    (/\ full.bound /\ low.bound
     /\ Len(primary.raw) = Len(residual.raw)
     /\ \A i \in 1..Len(residual.raw) : InResidualRange(residual.raw[i]))
        => \A i \in 1..Len(primary.raw) :
              (low.raw[i] = full.raw[i]) <=> (residual.raw[i] = 0)

\* streams not produced by encode, a non-zero residual within range: the two
\* decoders differ
DecodeLowVersusDecodeWitness ==
    /\ full.bound /\ low.bound /\ ~tensor.bound
    /\ enc.raw.residual_m_bits = 11
    /\ primary.raw = <<-1>>
    /\ residual.raw = <<2047>>
    /\ low.raw # full.raw

\* C9: the low decode is the input with its mantissa truncated. It has the
\* sign and the exponent of the input and the top primary_m_bits bits of its
\* mantissa, its low residual_m_bits mantissa bits are zero, and the input
\* exceeds it by the residual encode returned, at most 2^residual_m_bits - 1.
LowDecodeTruncates ==
    (tensor.bound /\ residual.bound /\ low.bound) =>
        /\ Len(low.raw) = Len(tensor.raw)
        /\ \A i \in 1..Len(tensor.raw) :
              LET x == tensor.raw[i]
                  y == low.raw[i]
                  r == enc.raw.residual_m_bits
              IN  /\ FieldSign(y) = FieldSign(x)
                  /\ FieldExp(y) = FieldExp(x)
                  /\ FieldMant(y) \div Pow2(r) = FieldMant(x) \div Pow2(r)
                  /\ FieldMant(y) % Pow2(r) = 0
                  /\ Low31(x) - Low31(y) = residual.raw[i]
                  /\ residual.raw[i] <= Pow2(r) - 1

\* a negative input whose low mantissa bits are not zero, low-decoded at a
\* middle split: the result differs from the input
LowDecodeWitness ==
    /\ tensor.bound /\ residual.bound /\ low.bound
    /\ tensor.raw = <<Float32(1, 133, 2796202)>>
    /\ enc.raw.primary_m_bits = 9
    /\ low.raw # tensor.raw

\* C10: stream value ranges. Every primary encode returns is the non-negative
\* number sign * 2^(8 + primary_m_bits) + exponent * 2^primary_m_bits
\* + (mantissa >> residual_m_bits), below 2^(9 + primary_m_bits), and every
\* residual is within 0 .. 2^residual_m_bits - 1.
StreamRanges ==
    (tensor.bound /\ primary.bound /\ residual.bound) =>
        \A i \in 1..Len(tensor.raw) :
            LET x == tensor.raw[i]
                p == enc.raw.primary_m_bits
                r == enc.raw.residual_m_bits
            IN  /\ primary.raw[i] >= 0
                /\ primary.raw[i] \div Pow2(p) = FieldSign(x) * 256 + FieldExp(x)
                /\ primary.raw[i] % Pow2(p) = FieldMant(x) \div Pow2(r)
                /\ residual.raw[i] >= 0
                /\ residual.raw[i] <= Pow2(r) - 1

=============================================================================
